---- MODULE Spec2Model ----
(***************************************************************************)
(* Page-fault handling core of the kernel: the copy-on-write group         *)
(* registry, fork-time address-space duplication, CoW fault resolution and *)
(* teardown (kernel/cow.c), and the heap demand-paging / eviction /        *)
(* page-in engines with the fault dispatcher (kernel/pfault.c).            *)
(***************************************************************************)
EXTENDS Integers, Sequences, FiniteSets, TLC

\* ------------------------------------------------------------------ bounds
\* Size of the process table: pids 1..NPROC and cow_group[] slots 1..NPROC.
NPROC == 3
\* Pages of a CoW process' address space (sz / PGSIZE).
NPAGES == 2
\* Physical frames managed by the frame allocator.
NFRAMES == 4

\* Heap page descriptors of the demand-paged process (heap_tracker[MAXHEAP]).
MAXHEAP == 3
\* Ceiling of resident heap pages.
MAXRESHEAP == 2
\* 4-block extents of the page swap area; PSASIZE blocks in all.
PSAEXTENTS == 2
\* Largest value the tick counter takes.
MAXTICKS == 2
\* Group ids and frame addresses the registry operations are called with.
NGROUPS == 2
NREGPA == 2
\* Harts that run registry calls at the same time.
NCPU == 2

\* ------------------------------------------------------- program constants
SHMEM_MAX == 100
\* __UINT64_MAX__, the top of the timestamp domain.
UINT64_MAX == 2147483647
\* The null pointer get_cow_group returns when it finds no record.
NULL == 0
\* The "no group" sentinel.
NOGROUP == -1

Pids == 1..NPROC
Slots == 1..NPROC
Pages == 0..(NPAGES - 1)
Frames == 1..NFRAMES
Cpus == 1..NCPU

\* A page-table entry: pa = 0 stands for an entry without PTE_V;
\* w is PTE_W.  A valid entry is always a readable user leaf.
NoPTE == [pa |-> 0, w |-> FALSE]
EmptyPagetable == [a \in Pages |-> NoPTE]

VARIABLES
    cow_group,   \* the registry: slot -> [group, shmem, count]
    proc,        \* pid -> [state, cow_group, pagetable]
    kmem,        \* frames on the allocator's free list
    dblfree,     \* frames that were handed to kfree while already free
    pmem,        \* frame -> content of the physical page
    cpu,         \* hart -> the registry call it is in: [pc, op, pa, reg]
    start,       \* the registry when the calls in flight were made
    panicked,    \* the kernel has halted (panic / fault in kernel mode)
    last,        \* what the last operation was and what it returned
    \* the demand-paged process and the swap area
    name,                 \* p->name
    heap_tracker,         \* p->heap_tracker: index -> [addr, loaded, last_load_time, startblock]
    resident_heap_pages,  \* p->resident_heap_pages
    upagetable,           \* p->pagetable: page -> [v, perm]
    umem,                 \* content of the user page mapped at each page
    psa_tracker,          \* block -> in use
    disk,                 \* content of each block of the swap area
    ticks,                \* the tick counter
    swapped,              \* index -> content the page had when it was last evicted
    hlast                 \* what the last run of page_fault_handler did

cowvars == <<cow_group, proc, kmem, dblfree, pmem, panicked, last>>
heapvars == <<name, heap_tracker, resident_heap_pages, upagetable, umem,
              psa_tracker, disk, ticks, swapped>>
concvars == <<cpu, start>>
vars == <<cow_group, proc, kmem, dblfree, pmem, panicked, last, cpu, start,
          name, heap_tracker, resident_heap_pages, upagetable, umem,
          psa_tracker, disk, ticks, swapped, hlast>>

Min(S) == CHOOSE x \in S : \A y \in S : x <= y

\* ---------------------------------------------------------------- registry
\* uint64 shmem[SHMEM_MAX] is kept as the sequence of its entries up to the
\* last non-zero one; the entries after it are 0.
ShmemAt(shmem, i) == IF i < Len(shmem) THEN shmem[i + 1] ELSE 0

\* shmem[index] = pa, for index < SHMEM_MAX.
ShmemStore(shmem, index, pa) ==
    IF index < Len(shmem) THEN [shmem EXCEPT ![index + 1] = pa]
    ELSE shmem \o [k \in 1..(index - Len(shmem)) |-> 0] \o <<pa>>

\* cow_init: every slot unused, no members, empty shared set.
cow_init == [i \in Slots |-> [group |-> NOGROUP, shmem |-> <<>>, count |-> 0]]

\* The slot holding `group`, or NULL.
get_cow_group(cg, group) ==
    IF group = NOGROUP THEN NULL
    ELSE IF \E i \in Slots : cg[i].group = group
         THEN Min({i \in Slots : cg[i].group = group})
         ELSE NULL

\* Claims the first unused slot; nothing happens when there is none.
cow_group_init(cg, groupno) ==
    IF \E i \in Slots : cg[i].group = NOGROUP
    THEN [cg EXCEPT ![Min({i \in Slots : cg[i].group = NOGROUP})].group = groupno]
    ELSE cg

\* These three dereference get_cow_group's result without a check: they are
\* only evaluated where the record exists (see Deref).
get_cow_group_count(cg, group) == cg[get_cow_group(cg, group)].count

incr_cow_group_count(cg, group) ==
    [cg EXCEPT ![get_cow_group(cg, group)].count = get_cow_group_count(cg, group) + 1]

decr_cow_group_count(cg, group) ==
    [cg EXCEPT ![get_cow_group(cg, group)].count = get_cow_group_count(cg, group) - 1]

\* The record of `group` can be dereferenced.
Deref(cg, group) == get_cow_group(cg, group) # NULL

\* The indices a scan of shmem can stop at: those of the array up to the
\* first entry after the kept ones (which is 0).
ScanRange(shmem) == 0..(IF Len(shmem) < SHMEM_MAX THEN Len(shmem) ELSE SHMEM_MAX - 1)

\* Where add_shmem's loop stops: the first index holding pa or 0, or
\* SHMEM_MAX when the loop runs off the end of the array.
ScanIndex(shmem, pa) ==
    LET hits == {i \in ScanRange(shmem) : ShmemAt(shmem, i) = pa \/ ShmemAt(shmem, i) = 0}
    IN  IF hits # {} THEN Min(hits) ELSE SHMEM_MAX

\* The outcomes of the store shmem[SHMEM_MAX] = pa, one past the array:
\* "count" - it lands on the field that follows the array (count);
\* "none"  - the record is left as it was.
UBOutcomes == {"count", "none"}

\* The outcomes of an access through the null pointer get_cow_group returns
\* for a group without a record (get_cow_group(group)->count, ->shmem):
\* "trap" - the kernel faults on the access and panics;
\* "none" - the access has no effect (a read yields 0).
NullOutcomes == {"trap", "none"}

\* A faulty add_shmem: the loop stops at the first empty entry only, so a
\* frame that is already in the set is stored again.
add_shmem_nodup(cg, group, pa, ub) ==
    IF group = NOGROUP THEN cg
    ELSE LET g == get_cow_group(cg, group)
             index == ScanIndex(cg[g].shmem, 0)
         IN  IF index < SHMEM_MAX
             THEN [cg EXCEPT ![g].shmem = ShmemStore(cg[g].shmem, index, pa)]
             ELSE IF ub = "count" THEN [cg EXCEPT ![g].count = pa] ELSE cg

add_shmem(cg, group, pa, ub) ==
    IF group = NOGROUP THEN cg
    ELSE LET g == get_cow_group(cg, group)
             index == ScanIndex(cg[g].shmem, pa)
         IN  IF index < SHMEM_MAX /\ ShmemAt(cg[g].shmem, index) = pa THEN cg
             ELSE IF index < SHMEM_MAX
                  THEN [cg EXCEPT ![g].shmem = ShmemStore(cg[g].shmem, index, pa)]
                  ELSE IF ub = "count" THEN [cg EXCEPT ![g].count = pa] ELSE cg

is_shmem(cg, group, pa) ==
    IF group = NOGROUP THEN FALSE
    ELSE LET shmem == cg[get_cow_group(cg, group)].shmem
             hits == {i \in ScanRange(shmem) :
                         ShmemAt(shmem, i) = 0 \/ ShmemAt(shmem, i) = pa}
         IN  IF hits = {} THEN FALSE
             ELSE ShmemAt(shmem, Min(hits)) # 0

\* ------------------------------------------------- allocator and page table
\* The frame allocator's state as the operators below thread it.
KState(free, dbl) == [free |-> free, dbl |-> dbl]

kfree(km, pa) ==
    KState(km.free \cup {pa}, km.dbl \cup (IF pa \in km.free THEN {pa} ELSE {}))

\* uvmunmap(pagetable, va, npages, do_free): entries without PTE_V are
\* skipped; returns the page table and the allocator state.
RECURSIVE uvmunmap(_, _, _, _, _)
uvmunmap(pagetable, va, npages, do_free, km) ==
    IF npages = 0 THEN [pagetable |-> pagetable, km |-> km]
    ELSE IF pagetable[va].pa = 0
         THEN uvmunmap(pagetable, va + 1, npages - 1, do_free, km)
         ELSE uvmunmap([pagetable EXCEPT ![va] = NoPTE], va + 1, npages - 1, do_free,
                       IF do_free THEN kfree(km, pagetable[va].pa) ELSE km)

\* uvmunmap_cow: as uvmunmap, but a frame of the group's shared set is
\* freed only when the group's member count is 0.
RECURSIVE uvmunmap_cow(_, _, _, _, _, _, _)
uvmunmap_cow(cg, pagetable, va, npages, do_free, group, km) ==
    IF npages = 0 THEN [pagetable |-> pagetable, km |-> km]
    ELSE IF pagetable[va].pa = 0
         THEN uvmunmap_cow(cg, pagetable, va + 1, npages - 1, do_free, group, km)
         ELSE LET pa == pagetable[va].pa
                  km2 == IF do_free
                         THEN IF is_shmem(cg, group, pa)
                              THEN IF get_cow_group_count(cg, group) = 0
                                   THEN kfree(km, pa) ELSE km
                              ELSE kfree(km, pa)
                         ELSE km
              IN  uvmunmap_cow(cg, [pagetable EXCEPT ![va] = NoPTE],
                               va + 1, npages - 1, do_free, group, km2)

uvmfree_cow(cg, pagetable, sz, group, km) ==
    IF sz > 0 THEN uvmunmap_cow(cg, pagetable, 0, sz, TRUE, group, km)
    ELSE [pagetable |-> pagetable, km |-> km]

\* ------------------------------------------------------------ uvmcopy_cow
\* The loop of uvmcopy_cow from page i on.  failAt is the page at which
\* mappages fails (NPAGES: it never fails).  Returns the registry, both
\* page tables, the allocator state and the return value.
RECURSIVE uvmcopy_cow_from(_, _, _, _, _, _, _, _, _)
uvmcopy_cow_from(cg, old, new, i, sz, group, failAt, ub, km) ==
    IF i >= sz
    THEN [cg |-> cg, old |-> old, new |-> new, km |-> km, ret |-> 0]
    ELSE LET pa == old[i].pa
             cg2 == IF ~is_shmem(cg, group, pa) THEN add_shmem(cg, group, pa, ub) ELSE cg
             old2 == [old EXCEPT ![i].w = FALSE]
         IN  IF i = failAt
             THEN LET u == uvmunmap(new, 0, i, TRUE, km)
                  IN  [cg |-> cg2, old |-> old2, new |-> u.pagetable, km |-> u.km, ret |-> -1]
             ELSE uvmcopy_cow_from(cg2, old2, [new EXCEPT ![i] = [pa |-> pa, w |-> FALSE]],
                                   i + 1, sz, group, failAt, ub, km)

uvmcopy_cow(cg, old, new, sz, group, failAt, ub, km) ==
    uvmcopy_cow_from(cg, old, new, 0, sz, group, failAt, ub, km)

\* "uvmcopy_cow: page not present"
uvmcopy_cow_panics(old, sz) == \E i \in 0..(sz - 1) : old[i].pa = 0

\* A faulty copy_on_write: the new mapping keeps the old flags (no PTE_W).
copy_on_write_readonly(pagetable, vaddr, mem) ==
    LET unmapped == uvmunmap(pagetable, vaddr, 1, FALSE, KState({}, {})).pagetable
    IN  [unmapped EXCEPT ![vaddr] = [pa |-> mem, w |-> pagetable[vaddr].w]]

\* copy_on_write(p, vaddr): a private writable copy replaces the mapping.
copy_on_write(pagetable, vaddr, mem) ==
    LET flagsW == TRUE
        unmapped == uvmunmap(pagetable, vaddr, 1, FALSE, KState({}, {})).pagetable
    IN  [unmapped EXCEPT ![vaddr] = [pa |-> mem, w |-> flagsW]]


\* ================================================================== pfault.c
PSASIZE == 4 * PSAEXTENTS
Blocks == 0..(PSASIZE - 1)
HeapIdx == 0..(MAXHEAP - 1)

\* The program image: its program headers, in pages.  vaddr, memsz: the
\* pages the segment spans; filesz: how many of them the file holds;
\* perm: flags2perm(ph.flags) with the PTE_R | PTE_U uvmalloc adds.
Segs == << [vaddr |-> 0, memsz |-> 2, filesz |-> 2, perm |-> {"R", "X", "U"}],
           [vaddr |-> 2, memsz |-> 1, filesz |-> 1, perm |-> {"R", "W", "U"}] >>
ImagePages == {a \in 0..2 : \E k \in 1..Len(Segs) :
                   a >= Segs[k].vaddr /\ a < Segs[k].vaddr + Segs[k].memsz}
\* The heap follows the image; heap page i lives at HeapVa(i).
HeapVa(i) == Cardinality(ImagePages) + i
UPages == 0..(Cardinality(ImagePages) + MAXHEAP - 1)

\* Page contents, in four 1024-byte quarters (one quarter per disk block).
ZeroPage == <<0, 0, 0, 0>>
\* What kalloc leaves in a fresh kernel page.
JunkPage == <<5, 5, 5, 5>>
\* What the user program stores in page a.
Pattern(a) == <<10 * (a + 1) + 1, 10 * (a + 1) + 2, 10 * (a + 1) + 3, 10 * (a + 1) + 4>>
\* What the executable file holds for page a of the image.
FilePage(a) == <<100 + a, 100 + a, 100 + a, 100 + a>>

NoMap == [v |-> FALSE, perm |-> {}]

\* init_psa_regions
init_psa_regions == [b \in Blocks |-> FALSE]

\* The scan of evict_page_to_disk for 4 consecutive free blocks, from block i
\* on: blockno and whether a run was found (and marked).
RECURSIVE FindFreeBlocks(_, _, _, _)
FindFreeBlocks(psa, i, blockno, freeBlocks) ==
    IF i >= PSASIZE THEN [blockno |-> blockno, found |-> FALSE]
    ELSE IF ~psa[i]
         THEN LET b == IF freeBlocks = 0 THEN i ELSE blockno
              IN  IF freeBlocks + 1 = 4 THEN [blockno |-> b, found |-> TRUE]
                  ELSE FindFreeBlocks(psa, i + 1, b, freeBlocks + 1)
         ELSE FindFreeBlocks(psa, i + 1, blockno, 0)

\* The victim scan of evict_page_to_disk from index i on.
RECURSIVE FindVictim(_, _, _, _)
FindVictim(ht, i, victimPageIndex, minTime) ==
    IF i >= MAXHEAP THEN victimPageIndex
    ELSE IF ~ht[i].loaded /\ ht[i].last_load_time < minTime
         THEN FindVictim(ht, i + 1, i, ht[i].last_load_time)
         ELSE FindVictim(ht, i + 1, victimPageIndex, minTime)

\* copyin(pagetable, ptr, va, PGSIZE) into a fresh kernel page: the page's
\* content, or what kalloc left when va is not mapped (copyin fails).
copyin(pt, mem, va) == IF pt[va].v THEN mem[va] ELSE JunkPage

\* The state evict_page_to_disk and retrieve_page_from_disk work on.
HState(ht, psa, dsk, pt, mem) ==
    [ht |-> ht, psa |-> psa, dsk |-> dsk, pt |-> pt, mem |-> mem]

evict_page_to_disk(h) ==
    LET f == FindFreeBlocks(h.psa, 0, 0, 0)
        blockno == f.blockno
        psa2 == IF f.found
                THEN [b \in Blocks |-> h.psa[b] \/ (b >= blockno /\ b <= blockno + 3)]
                ELSE h.psa
        victimPageIndex == FindVictim(h.ht, 0, 0, UINT64_MAX)
        vaAddr == h.ht[victimPageIndex].addr
        ptr == copyin(h.pt, h.mem, vaAddr)
        dsk2 == [b \in Blocks |->
                   IF b >= blockno /\ b <= blockno + 3 THEN ptr[b - blockno + 1] ELSE h.dsk[b]]
        pt2 == [h.pt EXCEPT ![vaAddr] = NoMap]
        ht2 == [h.ht EXCEPT ![victimPageIndex].startblock = blockno,
                            ![victimPageIndex].loaded = TRUE]
    IN  [h |-> HState(ht2, psa2, dsk2, pt2, h.mem),
         victim |-> victimPageIndex, blockno |-> blockno, found |-> f.found]

retrieve_page_from_disk(h, uvaddr) ==
    LET hit == {i \in HeapIdx : h.ht[i].loaded /\ h.ht[i].addr = uvaddr}
        startBlockNo == IF hit = {} THEN 0 ELSE h.ht[Min(hit)].startblock
        psa2 == IF hit = {} THEN h.psa
                ELSE [b \in Blocks |->
                        h.psa[b] /\ ~(b >= startBlockNo /\ b <= startBlockNo + 3)]
        ptr == [q \in 1..4 |-> h.dsk[startBlockNo + q - 1]]
        mem2 == IF h.pt[uvaddr].v THEN [h.mem EXCEPT ![uvaddr] = ptr] ELSE h.mem
    IN  HState(h.ht, psa2, h.dsk, h.pt, mem2)

\* Where page_fault_handler goes for a fault of cause scause at page addr.
Dispatch(scause, cow_enabled, ht, addr) ==
    IF scause = 15 /\ cow_enabled THEN "cow"
    ELSE IF \E i \in HeapIdx : ht[i].addr = addr THEN "heap"
         ELSE "image"

\* The test of heap_handle: !strncmp(p->name, "test5-odheap-bi", 16) == 0
\* is (strncmp(...) != 0), the name differs.
MustEvict(pname, resident) == pname # "test5-odheap-bi" /\ resident = MAXRESHEAP

NoFault == [path |-> "none", addr |-> 0, sfence |-> FALSE, returned |-> FALSE,
            evicted |-> FALSE, victim |-> 0, blockno |-> 0, found |-> FALSE,
            wasmapped |-> FALSE, kalloc |-> FALSE, pagedin |-> FALSE, asked |-> {}]


\* The segments whose virtual range holds page addr.
SegsAt(addr) == {k \in 1..Len(Segs) :
                    addr >= Segs[k].vaddr /\ addr < Segs[k].vaddr + Segs[k].memsz}

\* The pages loadseg(pagetable, ph.vaddr, ip, ph.off, ph.filesz) is asked to
\* fill for segment k.
loadseg_range(k) == Segs[k].vaddr..(Segs[k].vaddr + Segs[k].filesz - 1)

\* loadseg(pagetable, va, ip, off, sz) panics ("address should exist") when
\* a page of [va, va + sz) is not mapped.
loadseg_panics(pt, k) ==
    \E a \in Segs[k].vaddr..(Segs[k].vaddr + Segs[k].filesz - 1) : ~pt[a].v

\* loadseg: every page of the segment's file part receives the file's content.
loadseg(mem, k) ==
    [a \in UPages |->
        IF a >= Segs[k].vaddr /\ a < Segs[k].vaddr + Segs[k].filesz
        THEN FilePage(a) ELSE mem[a]]

\* ------------------------------------------------------------------ state
Live(p) == proc[p].state = "LIVE"
Unused(p) == proc[p].state = "UNUSED"
\* allocproc: the first unused slot of the process table.
FirstUnused == Min({p \in Pids : Unused(p)})

NoOp == [op |-> "none", pid |-> 0, ret |-> 0]

\* Frames that were shared, copied away from and left behind by members
\* that have exited: they stay in the group's shared set for good.
StalePa(k) == NFRAMES + 1 + k

\* What kfree leaves in a page (memset(pa, 1, PGSIZE)); kinit frees every
\* frame once.
FreedPage == 1
\* The contents after a call that freed the frames that joined the free list.
AfterFree(mem, before, after) ==
    [f \in Frames |-> IF f \in after \ before THEN FreedPage ELSE mem[f]]

\* What exec loads into page a of process p.
ImageOf(p, a) == 10 * p + a

\* After cow_init and kinit: no group, no CoW process, every frame free.
InitCow ==
    /\ pmem = [f \in Frames |-> FreedPage]
    /\ cow_group = cow_init
    /\ proc = [p \in Pids |-> [state |-> "UNUSED", cow_group |-> NOGROUP,
                               pagetable |-> EmptyPagetable]]
    /\ kmem = Frames
    /\ dblfree = {}
    /\ panicked = FALSE
    /\ last = NoOp

\* A group that has been through fork / write / exit cycles: process 1 is
\* its only member left (count 0), its pages are private again, and the
\* shared set holds n frames left behind by earlier cycles.
InitCowAged(n) ==
    /\ pmem = [f \in Frames |-> IF f - 1 \in Pages THEN ImageOf(1, f - 1) ELSE FreedPage]
    /\ cow_group = [cow_group_init(cow_init, 1) EXCEPT
                       ![1].shmem = [k \in 1..n |-> StalePa(k)]]
    /\ proc = [p \in Pids |->
                 IF p = 1
                 THEN [state |-> "LIVE", cow_group |-> 1,
                       pagetable |-> [a \in Pages |-> [pa |-> a + 1, w |-> TRUE]]]
                 ELSE [state |-> "UNUSED", cow_group |-> NOGROUP,
                       pagetable |-> EmptyPagetable]]
    /\ kmem = Frames \ {a + 1 : a \in Pages}
    /\ dblfree = {}
    /\ panicked = FALSE
    /\ last = NoOp

\* The demand-paged process after allocproc and sbrk: MAXHEAP tracked heap
\* pages, none faulted in yet; nothing of the image is mapped.
InitHeapProc ==
    /\ heap_tracker = [i \in HeapIdx |->
                         [addr |-> HeapVa(i), loaded |-> FALSE,
                          last_load_time |-> UINT64_MAX, startblock |-> -1]]
    /\ resident_heap_pages = 0
    /\ upagetable = [a \in UPages |-> NoMap]
    /\ umem = [a \in UPages |-> ZeroPage]
    /\ ticks = 0
    /\ swapped = [i \in HeapIdx |-> ZeroPage]
    /\ hlast = NoFault

\* The swap area with the extents in `used` held by other processes
\* (psa_tracker is shared by all processes).
InitSwap(used) ==
    /\ psa_tracker = [b \in Blocks |-> \E e \in used : b >= 4 * e /\ b <= 4 * e + 3]
    /\ disk = [b \in Blocks |-> IF \E e \in used : b >= 4 * e /\ b <= 4 * e + 3
                                THEN 99 ELSE 0]

ProcNames == {"test5-odheap-bi", "test"}

\* No hart is inside a registry call.
CpuIdle == [pc |-> "idle", op |-> "none", pa |-> 0, reg |-> 0]
InitCpus ==
    /\ cpu = [t \in Cpus |-> CpuIdle]
    /\ start = cow_group

Init == InitCow /\ InitHeapProc /\ InitSwap({}) /\ name \in ProcNames /\ InitCpus
InitIdle == InitCow /\ InitHeapProc /\ InitSwap({}) /\ name = "test" /\ InitCpus
InitAged ==
    /\ \E n \in {0, SHMEM_MAX - 1} : InitCowAged(n)
    /\ InitHeapProc /\ InitSwap({}) /\ name = "test" /\ InitCpus
InitShared ==
    /\ InitCow /\ InitHeapProc /\ name = "test" /\ InitCpus
    /\ \E used \in SUBSET (0..(PSAEXTENTS - 1)) : InitSwap(used)

\* ------------------------------------------------------------ cow actions
\* A CoW-capable process is created with no group to join: its pages are
\* private and writable, and it claims a group record (count stays 0).
CreateCowProc ==
    /\ ~panicked
    /\ \E p \in Pids : Unused(p)
    /\ LET p == FirstUnused IN
       \E f \in [Pages -> kmem] :
          /\ \A a, b \in Pages : a < b => f[a] < f[b]
          /\ kmem' = kmem \ {f[a] : a \in Pages}
          /\ pmem' = [x \in Frames |->
                        IF \E a \in Pages : f[a] = x
                        THEN ImageOf(p, CHOOSE a \in Pages : f[a] = x) ELSE pmem[x]]
          /\ proc' = [proc EXCEPT ![p] = [state |-> "LIVE", cow_group |-> p,
                                          pagetable |-> [a \in Pages |-> [pa |-> f[a], w |-> TRUE]]]]
          /\ cow_group' = cow_group_init(cow_group, p)
          /\ last' = [op |-> "create", pid |-> p, ret |-> 0]
    /\ UNCHANGED <<dblfree, panicked, hlast>>
    /\ UNCHANGED <<heapvars, concvars>>

\* fork: uvmcopy_cow(parent, child, sz); on success the child joins the
\* parent's group (incr_cow_group_count); on failure fork aborts.
ForkWith(p, failAt, ub) ==
    /\ ~panicked
    /\ Live(p)
    /\ \E c \in Pids : Unused(c)
    /\ UNCHANGED hlast
    /\ UNCHANGED <<heapvars, concvars>>
    /\ LET c == FirstUnused
           group == proc[p].cow_group
       IN  IF uvmcopy_cow_panics(proc[p].pagetable, NPAGES) \/ ~Deref(cow_group, group)
           THEN /\ panicked' = TRUE
                /\ last' = [op |-> "panic", pid |-> p, ret |-> 0]
                /\ UNCHANGED <<cow_group, proc, kmem, dblfree>>
           ELSE LET r == uvmcopy_cow(cow_group, proc[p].pagetable, EmptyPagetable,
                                     NPAGES, group, failAt, ub, KState(kmem, dblfree))
                IN  /\ kmem' = r.km.free
                    /\ dblfree' = r.km.dbl
                    /\ last' = [op |-> "uvmcopy_cow", pid |-> p, ret |-> r.ret]
                    /\ panicked' = FALSE
                    /\ IF r.ret = 0
                       THEN /\ cow_group' = incr_cow_group_count(r.cg, group)
                            /\ proc' = [proc EXCEPT ![p].pagetable = r.old,
                                                    ![c] = [state |-> "LIVE", cow_group |-> group,
                                                            pagetable |-> r.new]]
                       ELSE /\ cow_group' = r.cg
                            /\ proc' = [proc EXCEPT ![p].pagetable = r.old,
                                                    ![c].pagetable = r.new]
    /\ pmem' = AfterFree(pmem, kmem, kmem')

\* fork in which every mapping is installed.
Fork == \E p \in Pids : \E ub \in UBOutcomes : ForkWith(p, NPAGES, ub)

\* fork in which mappages fails at some page.
ForkFail == \E p \in Pids : \E failAt \in Pages : \E ub \in UBOutcomes : ForkWith(p, failAt, ub)

\* page_fault_handler on a store fault (scause 15) of a CoW-enabled
\* process at a page it maps read-only: copy_on_write, then sfence_vma.
CowFault ==
    /\ ~panicked
    /\ \E p \in Pids : \E vaddr \in Pages : \E mem \in kmem :
          /\ Live(p)
          /\ Dispatch(15, TRUE, heap_tracker, vaddr) = "cow"
          /\ proc[p].pagetable[vaddr].pa # 0
          /\ ~proc[p].pagetable[vaddr].w
          /\ kmem' = kmem \ {mem}
          \* memmove(mem, (char*)pa, PGSIZE)
          /\ pmem' = [pmem EXCEPT ![mem] = pmem[proc[p].pagetable[vaddr].pa]]
          /\ proc' = [proc EXCEPT ![p].pagetable = copy_on_write(proc[p].pagetable, vaddr, mem)]
          /\ last' = [op |-> "copy_on_write", pid |-> p, ret |-> 0]
          /\ hlast' = [NoFault EXCEPT !.path = "cow", !.addr = vaddr, !.kalloc = TRUE,
                                      !.wasmapped = TRUE, !.sfence = TRUE, !.returned = TRUE]
    /\ UNCHANGED <<cow_group, dblfree, panicked>>
    /\ UNCHANGED <<heapvars, concvars>>

\* The same fault when the allocator has no free frame: kalloc returns 0,
\* copy_on_write does not test it and memmove(0, pa, PGSIZE) stores to
\* address 0, which the kernel page table does not map: the kernel faults
\* in supervisor mode and panics; the handler does not return.
CowFaultNoMem ==
    /\ ~panicked
    /\ kmem = {}
    /\ \E p \in Pids : \E vaddr \in Pages :
          /\ Live(p)
          /\ Dispatch(15, TRUE, heap_tracker, vaddr) = "cow"
          /\ proc[p].pagetable[vaddr].pa # 0
          /\ ~proc[p].pagetable[vaddr].w
    /\ last' = [op |-> "panic", pid |-> 0, ret |-> 0]
    /\ hlast' = [NoFault EXCEPT !.path = "cow", !.wasmapped = TRUE]
    /\ panicked' = TRUE
    /\ UNCHANGED <<cow_group, proc, kmem, dblfree, pmem>>
    /\ UNCHANGED <<heapvars, concvars>>

\* proc_freepagetable_cow(pagetable, sz, cow_group).
Teardown ==
    /\ ~panicked
    /\ UNCHANGED hlast
    /\ UNCHANGED <<heapvars, concvars>>
    /\ \E p \in Pids :
          /\ Live(p)
          /\ LET group == proc[p].cow_group IN
             IF ~Deref(cow_group, group)
             THEN /\ panicked' = TRUE
                  /\ last' = [op |-> "panic", pid |-> p, ret |-> 0]
                  /\ UNCHANGED <<cow_group, proc, kmem, dblfree>>
             ELSE LET u == uvmfree_cow(cow_group, proc[p].pagetable, NPAGES, group,
                                       KState(kmem, dblfree))
                  IN  /\ kmem' = u.km.free
                      /\ dblfree' = u.km.dbl
                      /\ proc' = [proc EXCEPT ![p].state = "FREED", ![p].pagetable = u.pagetable]
                      /\ cow_group' = decr_cow_group_count(cow_group, group)
                      /\ last' = [op |-> "teardown", pid |-> p, ret |-> 0]
                      /\ panicked' = FALSE
    /\ pmem' = AfterFree(pmem, kmem, kmem')

\* ------------------------------------------------------- registry actions
\* cow_group_init(g) for the next group id not in use yet.
RegCreate ==
    /\ ~panicked
    /\ \E g \in 1..NGROUPS :
          /\ ~Deref(cow_group, g)
          /\ \A h \in 1..(g - 1) : Deref(cow_group, h)
          /\ cow_group' = cow_group_init(cow_group, g)
          /\ last' = [op |-> "cow_group_init", pid |-> g, ret |-> 0]
    /\ UNCHANGED <<proc, kmem, dblfree, pmem, panicked, hlast>>
    /\ UNCHANGED <<heapvars, concvars>>

\* add_shmem(g, pa) on a group that has a record.
RegAdd ==
    /\ ~panicked
    /\ \E g \in 1..NGROUPS : \E pa \in 1..NREGPA : \E ub \in UBOutcomes :
          /\ Deref(cow_group, g)
          /\ cow_group' = add_shmem(cow_group, g, pa, ub)
          /\ last' = [op |-> "add_shmem", pid |-> g, ret |-> pa]
    /\ UNCHANGED <<proc, kmem, dblfree, pmem, panicked, hlast>>
    /\ UNCHANGED <<heapvars, concvars>>

\* The group arguments the registry is called with: the no-group sentinel
\* and the group ids.
RegGroups == {NOGROUP} \cup (1..NGROUPS)

\* What a registry call leaves behind when it dereferences null.
NullDeref(op, g) ==
    \E o \in NullOutcomes :
       /\ panicked' = (o = "trap")
       /\ last' = [op |-> op, pid |-> g, ret |-> 0]
       /\ UNCHANGED cow_group

\* get_cow_group(g): the slot found, 0 for none.
RegGet ==
    /\ ~panicked
    /\ \E g \in RegGroups :
          last' = [op |-> "get_cow_group", pid |-> g, ret |-> get_cow_group(cow_group, g)]
    /\ UNCHANGED <<cow_group, proc, kmem, dblfree, pmem, panicked, hlast>>
    /\ UNCHANGED <<heapvars, concvars>>

\* is_shmem(g, pa): the sentinel is answered before the record is looked up.
RegIsShmem ==
    /\ ~panicked
    /\ \E g \in RegGroups : \E pa \in 1..NREGPA :
          IF g = NOGROUP \/ Deref(cow_group, g)
          THEN /\ last' = [op |-> "is_shmem", pid |-> g,
                           ret |-> IF is_shmem(cow_group, g, pa) THEN 1 ELSE 0]
               /\ UNCHANGED <<cow_group, panicked>>
          ELSE NullDeref("is_shmem", g)
    /\ UNCHANGED <<proc, kmem, dblfree, pmem, hlast>>
    /\ UNCHANGED <<heapvars, concvars>>

\* add_shmem(-1, pa): returns at once.
RegAddNoGroup ==
    /\ ~panicked
    /\ \E pa \in 1..NREGPA : \E ub \in UBOutcomes :
          /\ cow_group' = add_shmem(cow_group, NOGROUP, pa, ub)
          /\ last' = [op |-> "add_shmem", pid |-> NOGROUP, ret |-> 0]
    /\ UNCHANGED <<proc, kmem, dblfree, pmem, panicked, hlast>>
    /\ UNCHANGED <<heapvars, concvars>>

\* get_cow_group_count(g).
RegGetCount ==
    /\ ~panicked
    /\ \E g \in RegGroups :
          IF Deref(cow_group, g)
          THEN /\ last' = [op |-> "get_cow_group_count", pid |-> g,
                           ret |-> get_cow_group_count(cow_group, g)]
               /\ UNCHANGED <<cow_group, panicked>>
          ELSE NullDeref("get_cow_group_count", g)
    /\ UNCHANGED <<proc, kmem, dblfree, pmem, hlast>>
    /\ UNCHANGED <<heapvars, concvars>>

\* incr_cow_group_count(g); the model stops counting at NPROC members.
RegIncr ==
    /\ ~panicked
    /\ \E g \in RegGroups :
          IF Deref(cow_group, g)
          THEN /\ get_cow_group_count(cow_group, g) < NPROC
               /\ cow_group' = incr_cow_group_count(cow_group, g)
               /\ last' = [op |-> "incr_cow_group_count", pid |-> g, ret |-> 0]
               /\ UNCHANGED panicked
          ELSE NullDeref("incr_cow_group_count", g)
    /\ UNCHANGED <<proc, kmem, dblfree, pmem, hlast>>
    /\ UNCHANGED <<heapvars, concvars>>

\* decr_cow_group_count(g); the model stops counting at -NPROC.
RegDecr ==
    /\ ~panicked
    /\ \E g \in RegGroups :
          IF Deref(cow_group, g)
          THEN /\ get_cow_group_count(cow_group, g) > -NPROC
               /\ cow_group' = decr_cow_group_count(cow_group, g)
               /\ last' = [op |-> "decr_cow_group_count", pid |-> g, ret |-> 0]
               /\ UNCHANGED panicked
          ELSE NullDeref("decr_cow_group_count", g)
    /\ UNCHANGED <<proc, kmem, dblfree, pmem, hlast>>
    /\ UNCHANGED <<heapvars, concvars>>

\* ---------------------------------------------------------- fault actions
\* page_fault_handler of the demand-paged process (not CoW-enabled), heap
\* path: the faulting page addr is a tracked heap page.
HeapFault(addr) ==
    /\ ~panicked
    /\ Dispatch(13, FALSE, heap_tracker, addr) = "heap"
    /\ LET i == Min({j \in HeapIdx : heap_tracker[j].addr = addr})
           load_from_disk == heap_tracker[i].loaded
           h0 == HState(heap_tracker, psa_tracker, disk, upagetable, umem)
           doevict == MustEvict(name, resident_heap_pages)
           e == evict_page_to_disk(h0)
           h1 == IF doevict THEN e.h ELSE h0
           res1 == IF doevict THEN resident_heap_pages - 1 ELSE resident_heap_pages
           \* uvmalloc: kalloc, zero the page, mappages with PTE_W;
           \* mappages panics ("remap") on a page that is mapped
           remap == h1.pt[addr].v
           pt2 == [h1.pt EXCEPT ![addr] = [v |-> TRUE, perm |-> {"R", "W", "U"}]]
           mem2 == [h1.mem EXCEPT ![addr] = ZeroPage]
           ht2 == [h1.ht EXCEPT ![i].last_load_time = ticks]
           h2 == HState(ht2, h1.psa, h1.dsk, pt2, mem2)
           h3 == IF load_from_disk THEN retrieve_page_from_disk(h2, addr) ELSE h2
           h4 == IF remap THEN h1 ELSE h3
       IN  /\ hlast' = [path |-> "heap", addr |-> addr,
                        sfence |-> ~remap, returned |-> ~remap,
                        evicted |-> doevict,
                        victim |-> IF doevict THEN e.victim ELSE 0,
                        blockno |-> IF doevict THEN e.blockno ELSE 0,
                        found |-> IF doevict THEN e.found ELSE FALSE,
                        wasmapped |-> upagetable[addr].v, kalloc |-> TRUE,
                        pagedin |-> load_from_disk /\ ~remap, asked |-> {}]
           /\ swapped' = IF doevict /\ upagetable[heap_tracker[e.victim].addr].v
                         THEN [swapped EXCEPT ![e.victim] = umem[heap_tracker[e.victim].addr]]
                         ELSE swapped
           /\ panicked' = remap
           /\ heap_tracker' = h4.ht
           /\ psa_tracker' = h4.psa
           /\ disk' = h4.dsk
           /\ upagetable' = h4.pt
           /\ umem' = h4.mem
           /\ resident_heap_pages' = IF remap THEN res1 ELSE res1 + 1
    /\ UNCHANGED <<cow_group, proc, kmem, dblfree, pmem, last, concvars, name, ticks>>

\* A load or store to a heap page that is not mapped faults.
HeapFaultUnmapped == \E i \in HeapIdx : ~upagetable[HeapVa(i)].v /\ HeapFault(HeapVa(i))

\* An instruction fetch from a resident heap page (mapped without PTE_X) faults.
HeapFaultResident == \E i \in HeapIdx : upagetable[HeapVa(i)].v /\ HeapFault(HeapVa(i))

\* page_fault_handler, program-image path with the executable found: every
\* segment holding addr has the page mapped and the segment loaded.
RECURSIVE LoadSegments(_, _, _, _)
LoadSegments(k, addr, pt, mem) ==
    IF k > Len(Segs)
    THEN [pt |-> pt, mem |-> mem, panic |-> FALSE, kalloc |-> FALSE, asked |-> {}]
    ELSE IF k \in SegsAt(addr)
         THEN IF pt[addr].v
              THEN [pt |-> pt, mem |-> mem, panic |-> TRUE, kalloc |-> TRUE, asked |-> {}]
              ELSE LET pt2 == [pt EXCEPT ![addr] = [v |-> TRUE, perm |-> Segs[k].perm]]
                       mem2 == [mem EXCEPT ![addr] = ZeroPage]
                   IN  IF loadseg_panics(pt2, k)
                       THEN [pt |-> pt2, mem |-> mem2, panic |-> TRUE, kalloc |-> TRUE,
                             asked |-> loadseg_range(k)]
                       ELSE LET r == LoadSegments(k + 1, addr, pt2, loadseg(mem2, k))
                            IN  [r EXCEPT !.kalloc = TRUE,
                                          !.asked = r.asked \cup loadseg_range(k)]
         ELSE LoadSegments(k + 1, addr, pt, mem)

ImageFault ==
    /\ ~panicked
    /\ \E addr \in ImagePages :
          /\ ~upagetable[addr].v
          /\ Dispatch(13, FALSE, heap_tracker, addr) = "image"
          /\ LET r == LoadSegments(1, addr, upagetable, umem)
             IN  /\ upagetable' = r.pt
                 /\ umem' = r.mem
                 /\ panicked' = r.panic
                 /\ hlast' = [NoFault EXCEPT !.path = "image", !.addr = addr,
                                             !.kalloc = r.kalloc, !.asked = r.asked,
                                             !.sfence = ~r.panic, !.returned = ~r.panic]
    /\ UNCHANGED <<cow_group, proc, kmem, dblfree, pmem, last, concvars, name, heap_tracker,
                   resident_heap_pages, psa_tracker, disk, ticks, swapped>>

\* page_fault_handler, program-image path, namei(p->name) finds nothing:
\* end_op and return.
ImageFaultNoExe ==
    /\ ~panicked
    /\ \E addr \in ImagePages :
          /\ ~upagetable[addr].v
          /\ Dispatch(13, FALSE, heap_tracker, addr) = "image"
          /\ hlast' = [NoFault EXCEPT !.path = "noexe", !.addr = addr,
                                      !.sfence = FALSE, !.returned = TRUE]
    /\ UNCHANGED <<cow_group, proc, kmem, dblfree, pmem, panicked, last>>
    /\ UNCHANGED <<heapvars, concvars>>

\* The user program stores its pattern into a resident heap page.
UserWrite ==
    /\ ~panicked
    /\ \E i \in HeapIdx :
          /\ upagetable[HeapVa(i)].v
          /\ "W" \in upagetable[HeapVa(i)].perm
          /\ umem[HeapVa(i)] # Pattern(HeapVa(i))
          /\ umem' = [umem EXCEPT ![HeapVa(i)] = Pattern(HeapVa(i))]
    /\ UNCHANGED <<cow_group, proc, kmem, dblfree, pmem, panicked, last, concvars, name, heap_tracker,
                   resident_heap_pages, upagetable, psa_tracker, disk, ticks, swapped, hlast>>

\* The timer interrupt advances ticks.
Tick ==
    /\ ~panicked
    /\ ticks < MAXTICKS
    /\ ticks' = ticks + 1
    /\ UNCHANGED <<cow_group, proc, kmem, dblfree, pmem, panicked, last, concvars, name, heap_tracker,
                   resident_heap_pages, upagetable, umem, psa_tracker, disk, swapped, hlast>>

\* --------------------------------------------------------- specifications
\* ------------------------------------------------- registry calls in flight
\* Harts run registry calls on the same group at the same time.  cow_lock is
\* initialised by cow_init and acquired nowhere, so the loads and stores of
\* the calls interleave freely; each action below is one access (or one
\* scan) of the record.
ConcGroup == 1
ConcCalls == {[op |-> "incr", pa |-> 0], [op |-> "decr", pa |-> 0]}
                 \cup {[op |-> "share", pa |-> pa] : pa \in 1..NREGPA}

\* Every hart enters a call on ConcGroup: incr_cow_group_count,
\* decr_cow_group_count, or uvmcopy_cow's is_shmem followed by add_shmem.
ConcBegin ==
    /\ ~panicked
    /\ Deref(cow_group, ConcGroup)
    /\ \A t \in Cpus : cpu[t].pc = "idle"
    /\ get_cow_group_count(cow_group, ConcGroup) \in (NCPU - NPROC)..(NPROC - NCPU)
    /\ \E calls \in [Cpus -> ConcCalls] :
          cpu' = [t \in Cpus |->
                    [pc |-> IF calls[t].op = "share" THEN "is_shmem" ELSE "load",
                     op |-> calls[t].op, pa |-> calls[t].pa, reg |-> 0]]
    /\ start' = cow_group
    /\ UNCHANGED <<cowvars, heapvars, hlast>>

\* get_cow_group_count(group): the load of count on the right-hand side.
CountLoad(t) ==
    /\ cpu[t].pc = "load"
    /\ cpu' = [cpu EXCEPT ![t].pc = "store",
                          ![t].reg = get_cow_group_count(cow_group, ConcGroup)]
    /\ UNCHANGED <<cowvars, start, heapvars, hlast>>

\* get_cow_group(group)->count = <loaded value> +/- 1.
CountStore(t) ==
    /\ cpu[t].pc = "store"
    /\ cow_group' = [cow_group EXCEPT ![get_cow_group(cow_group, ConcGroup)].count =
                        IF cpu[t].op = "incr" THEN cpu[t].reg + 1 ELSE cpu[t].reg - 1]
    /\ cpu' = [cpu EXCEPT ![t].pc = "done"]
    /\ UNCHANGED <<proc, kmem, dblfree, pmem, panicked, last, start, heapvars, hlast>>

\* uvmcopy_cow: if(!is_shmem(group, pa)) add_shmem(group, pa).
ShareTest(t) ==
    /\ cpu[t].pc = "is_shmem"
    /\ cpu' = [cpu EXCEPT ![t].pc = IF is_shmem(cow_group, ConcGroup, cpu[t].pa)
                                    THEN "done" ELSE "scan"]
    /\ UNCHANGED <<cowvars, start, heapvars, hlast>>

\* add_shmem's loop: it returns at an entry equal to pa and leaves the loop
\* with index at the first empty entry, or at SHMEM_MAX.
ShareScan(t) ==
    /\ cpu[t].pc = "scan"
    /\ LET shmem == cow_group[get_cow_group(cow_group, ConcGroup)].shmem
           index == ScanIndex(shmem, cpu[t].pa)
       IN  cpu' = [cpu EXCEPT
                      ![t].pc = IF index < SHMEM_MAX /\ ShmemAt(shmem, index) = cpu[t].pa
                                THEN "done" ELSE "put",
                      ![t].reg = index]
    /\ UNCHANGED <<cowvars, start, heapvars, hlast>>

\* add_shmem's store shmem[index] = pa.
SharePut(t) ==
    /\ cpu[t].pc = "put"
    /\ LET g == get_cow_group(cow_group, ConcGroup) IN
       \E ub \in UBOutcomes :
          cow_group' =
             IF cpu[t].reg < SHMEM_MAX
             THEN [cow_group EXCEPT ![g].shmem = ShmemStore(cow_group[g].shmem,
                                                            cpu[t].reg, cpu[t].pa)]
             ELSE IF ub = "count" THEN [cow_group EXCEPT ![g].count = cpu[t].pa]
                  ELSE cow_group
    /\ cpu' = [cpu EXCEPT ![t].pc = "done"]
    /\ UNCHANGED <<proc, kmem, dblfree, pmem, panicked, last, start, heapvars, hlast>>

\* Every call has returned; the harts go on to other work.
ConcEnd ==
    /\ \A t \in Cpus : cpu[t].pc = "done"
    /\ cpu' = [t \in Cpus |-> CpuIdle]
    /\ UNCHANGED <<cowvars, start, heapvars, hlast>>

ConcLoad == \E t \in Cpus : CountLoad(t)
ConcStore == \E t \in Cpus : CountStore(t)
ConcTest == \E t \in Cpus : ShareTest(t)
ConcScan == \E t \in Cpus : ShareScan(t)
ConcPut == \E t \in Cpus : SharePut(t)

\* The calls of the harts run one after the other, whole: the registry after
\* the first k harts of `order` have run from cg.
SerialCall(cg, call, ub) ==
    IF call.op = "incr" THEN incr_cow_group_count(cg, ConcGroup)
    ELSE IF call.op = "decr" THEN decr_cow_group_count(cg, ConcGroup)
    ELSE IF is_shmem(cg, ConcGroup, call.pa) THEN cg
         ELSE add_shmem(cg, ConcGroup, call.pa, ub)

RECURSIVE SerialRun(_, _, _, _)
SerialRun(cg, order, ubs, k) ==
    IF k = 0 THEN cg
    ELSE SerialCall(SerialRun(cg, order, ubs, k - 1), cpu[order[k]], ubs[order[k]])

SerialResults ==
    {SerialRun(start, order, ubs, NCPU) :
        order \in Permutations(Cpus), ubs \in [Cpus -> UBOutcomes]}


NextCow == CreateCowProc \/ Fork \/ CowFault \/ Teardown
NextCowMem == CreateCowProc \/ Fork \/ CowFault \/ CowFaultNoMem
NextCowErr == CreateCowProc \/ Fork \/ ForkFail \/ Teardown
NextReg == RegCreate \/ RegAdd
NextHeap == HeapFaultUnmapped \/ UserWrite \/ Tick
NextRegOps == RegCreate \/ RegAdd \/ RegAddNoGroup \/ RegGet \/ RegIsShmem
                 \/ RegGetCount \/ RegIncr \/ RegDecr
NextFault == HeapFaultUnmapped \/ HeapFaultResident \/ ImageFault \/ ImageFaultNoExe
NextConc == ConcBegin \/ ConcLoad \/ ConcStore \/ ConcTest \/ ConcScan \/ ConcPut
                \/ ConcEnd

\* One CoW group family from boot: create, fork, write fault, exit.
SpecCow == InitIdle /\ [][NextCow]_vars
\* The same with a group whose shared set has filled up over earlier cycles.
SpecCowAged == InitAged /\ [][NextCow]_vars
\* Create, fork and write faults, with the contents of the frames and with
\* faults that find no free frame.
SpecCowMem == InitIdle /\ [][NextCowMem]_vars
\* The same with forks in which mappages fails.
SpecCowErr == InitIdle /\ [][NextCowErr]_vars
\* The registry operations on their own.
SpecReg == InitAged /\ [][NextReg]_vars
\* Every registry operation, called with group ids and with the sentinel.
SpecRegOps == InitIdle /\ [][NextRegOps]_vars
\* The demand-paged heap of one process, with the swap area to itself.
SpecHeap == Init /\ [][NextHeap]_vars
\* The same with part of the swap area held by other processes.
SpecSwap == InitShared /\ [][NextHeap]_vars
\* Every fault the demand-paged process can take.
SpecFault == Init /\ [][NextFault]_vars
\* Harts running registry calls on one group at the same time.
SpecConc == InitAged /\ [][NextConc]_vars

\* ================================================================== claims
\* Heap descriptor i's page is mapped.
Resident(i) == upagetable[heap_tracker[i].addr].v
\* i is the resident page with the smallest timestamp, lowest index first.
Oldest(i) ==
    /\ Resident(i)
    /\ \A j \in HeapIdx : Resident(j) =>
          \/ heap_tracker[i].last_load_time < heap_tracker[j].last_load_time
          \/ heap_tracker[i].last_load_time = heap_tracker[j].last_load_time /\ i <= j
\* The descriptor of page a.
IdxOf(a) == Min({j \in HeapIdx : heap_tracker[j].addr = a})
\* psa has a run of 4 consecutive free blocks.
HasRun(psa) == \E b \in Blocks : b + 3 \in Blocks /\ \A k \in 0..3 : ~psa[b + k]

\* Some live process other than p, of group g, maps frame f (after the step).
MappedByOther(p, g, f) ==
    \E q \in Pids \ {p} :
       /\ proc'[q].state = "LIVE"
       /\ proc'[q].cow_group = g
       /\ \E a \in Pages : proc'[q].pagetable[a].pa = f

\* C1: over fork, write faults and teardowns in one group, a teardown never
\* frees a frame that another live member of the group still maps.
C1_TeardownKeepsMappedFrames ==
    [][\A p \in Pids : (Live(p) /\ proc'[p].state = "FREED") =>
          \A f \in kmem' \ kmem : ~MappedByOther(p, proc[p].cow_group, f)]_vars

\* Every process that was a member of group g has been torn down.
GroupDone(g) ==
    /\ \E p \in Pids : proc[p].cow_group = g
    /\ \A p \in Pids : proc[p].cow_group = g => proc[p].state = "FREED"

\* Frame f is neither free nor mapped by a live process.
Leaked(f) ==
    /\ f \notin kmem
    /\ ~\E p \in Pids : Live(p) /\ \E a \in Pages : proc[p].pagetable[a].pa = f

\* C2: once every member of a group has run proc_freepagetable_cow, every
\* frame the group shared has been freed exactly once: it is not leaked and
\* it was not freed twice.
C2_SharedFrameFreedOnce ==
    \A i \in Slots :
       GroupDone(cow_group[i].group) =>
          \A k \in 1..Len(cow_group[i].shmem) :
             cow_group[i].shmem[k] \in Frames =>
                /\ ~Leaked(cow_group[i].shmem[k])
                /\ cow_group[i].shmem[k] \notin dblfree

\* C3: the member count of a group is never negative.
C3_CountNeverNegative == \A i \in Slots : cow_group[i].count >= 0

\* C4: a heap page that is paged back in holds the content it had when it
\* was evicted.
C4_RoundTrip ==
    [][\A a \in UPages : (HeapFault(a) /\ hlast'.pagedin) =>
          umem'[a] = swapped[IdxOf(a)]]_vars

\* C5: the page evict_page_to_disk evicts is the resident heap page with the
\* smallest last-access timestamp, the lowest index among equals.
C5_VictimIsOldestResident ==
    [][\A a \in UPages : (HeapFault(a) /\ hlast'.evicted) => Oldest(hlast'.victim)]_vars

\* C6: an allocation finds 4 free blocks disjoint from every extent in use
\* whenever a run of 4 free blocks exists; when none exists it fails, no
\* block in use is written and no descriptor is given an extent in use.
C6_SwapAllocation ==
    [][\A a \in UPages : (HeapFault(a) /\ hlast'.evicted) =>
          IF HasRun(psa_tracker)
          THEN /\ hlast'.found
               /\ \A k \in 0..3 : ~psa_tracker[hlast'.blockno + k]
          ELSE /\ ~hlast'.found
               /\ \A b \in Blocks : psa_tracker[b] => disk'[b] = disk[b]
               /\ \A i \in HeapIdx :
                     heap_tracker'[i].startblock # heap_tracker[i].startblock =>
                        ~psa_tracker[heap_tracker'[i].startblock]]_vars

\* C7: after add_shmem(g, f) on a shared set that is not full, is_shmem(g, f)
\* is true and a second add_shmem(g, f) leaves the registry as it is.
C7_AddThenIsShmem ==
    [][( /\ last'.op = "add_shmem"
         /\ Deref(cow_group, last'.pid)
         /\ Len(cow_group[get_cow_group(cow_group, last'.pid)].shmem) < SHMEM_MAX
         /\ \E ub \in UBOutcomes :
               cow_group' = add_shmem(cow_group, last'.pid, last'.ret, ub) )
       => LET shmem == cow_group'[get_cow_group(cow_group', last'.pid)].shmem
          IN  /\ is_shmem(cow_group', last'.pid, last'.ret)
              /\ \A ub2 \in UBOutcomes :
                    add_shmem(cow_group', last'.pid, last'.ret, ub2) = cow_group'
              /\ Cardinality({k \in 1..Len(shmem) : shmem[k] = last'.ret}) = 1]_vars

\* C7's case: add_shmem has just filled the last entry of a shared set.
W_C7_AddedLastEntry ==
    /\ last.op = "add_shmem"
    /\ Deref(cow_group, last.pid)
    /\ Len(cow_group[get_cow_group(cow_group, last.pid)].shmem) = SHMEM_MAX
    /\ ShmemAt(cow_group[get_cow_group(cow_group, last.pid)].shmem, SHMEM_MAX - 1) = last.ret
    /\ is_shmem(cow_group, last.pid, last.ret)

\* C8: page_fault_handler for a heap page that is already mapped allocates
\* no second frame for it.
C8_NoSecondFrame ==
    [][\A a \in UPages : (HeapFault(a) /\ upagetable[a].v) => ~hlast'.kalloc]_vars

\* C9: every run of page_fault_handler that returns has flushed the cached
\* translations (sfence_vma) first.
C9_AlwaysFlushes == hlast.returned => hlast.sfence

\* C10: when mappages fails in uvmcopy_cow, the call returns -1, the
\* destination holds no mapping, and no frame the source maps was freed.
C10_FailedCopyOnlyUnmaps ==
    [][\A p \in Pids : \A failAt \in Pages : \A ub \in UBOutcomes :
          (ForkWith(p, failAt, ub) /\ ~panicked') =>
             /\ last'.ret = -1
             /\ proc'[FirstUnused].pagetable = EmptyPagetable
             /\ \A f \in (kmem' \ kmem) \cup (dblfree' \ dblfree) :
                   \A a \in Pages : proc'[p].pagetable[a].pa # f]_vars

\* C11: every registry operation called with the no-group sentinel is safe:
\* a lookup finds nothing (0) and a mutating operation leaves every group
\* record as it is; none of them brings the kernel down.
C11_SentinelIsSafe ==
    [][(last'.pid = NOGROUP /\ last'.op \in {"get_cow_group", "is_shmem",
            "get_cow_group_count", "incr_cow_group_count",
            "decr_cow_group_count", "add_shmem"})
       => (cow_group' = cow_group /\ last'.ret = 0 /\ ~panicked')]_vars

\* Frame f is an entry of the shared set of group g.
InSharedSet(cg, g, f) ==
    /\ Deref(cg, g)
    /\ \E k \in 1..Len(cg[get_cow_group(cg, g)].shmem) : cg[get_cow_group(cg, g)].shmem[k] = f

\* C12: after uvmcopy_cow(old, new, sz) returns 0, every page of [0, sz) is
\* mapped by old and new to the same frame, neither mapping is writable, and
\* the frame is in the shared set of the caller's group.
C12_CopyShares ==
    [][\A p \in Pids : \A ub \in UBOutcomes :
          (ForkWith(p, NPAGES, ub) /\ last'.op = "uvmcopy_cow" /\ last'.ret = 0) =>
             \A a \in Pages :
                /\ proc'[p].pagetable[a].pa # 0
                /\ proc'[FirstUnused].pagetable[a].pa = proc'[p].pagetable[a].pa
                /\ ~proc'[p].pagetable[a].w
                /\ ~proc'[FirstUnused].pagetable[a].w
                /\ InSharedSet(cow_group', proc[p].cow_group, proc'[p].pagetable[a].pa)]_vars

\* C13: after copy_on_write(p, vaddr) on a read-only shared page, p maps
\* vaddr writable to a frame that was free before, holding the content of
\* the shared frame; the shared frame stays allocated, its content and every
\* other mapping (of p and of every other process) are as before.
C13_CowPrivateCopy ==
    [][(last'.op = "copy_on_write" /\ ~panicked') =>
          LET p == last'.pid
              vaddr == hlast'.addr
              X == proc[p].pagetable[vaddr].pa
              Y == proc'[p].pagetable[vaddr].pa
          IN  /\ X # 0 /\ ~proc[p].pagetable[vaddr].w
              /\ Y # 0 /\ Y # X
              /\ Y \in kmem /\ Y \notin kmem'
              /\ proc'[p].pagetable[vaddr].w
              /\ pmem'[Y] = pmem[X]
              /\ pmem'[X] = pmem[X]
              /\ X \notin kmem'
              /\ \A q \in Pids : \A a \in Pages :
                    (q # p \/ a # vaddr) => proc'[q].pagetable[a] = proc[q].pagetable[a]]_vars

\* C13's case: p has just taken a private writable copy of a page that
\* another live process still maps read-only at the shared frame, and both
\* frames hold the same loaded content.
W_C13_CopiedWhileShared ==
    /\ last.op = "copy_on_write"
    /\ \E q \in Pids \ {last.pid} :
          /\ Live(q) /\ Live(last.pid)
          /\ proc[last.pid].pagetable[hlast.addr].w
          /\ proc[q].pagetable[hlast.addr].pa # 0
          /\ ~proc[q].pagetable[hlast.addr].w
          /\ proc[q].pagetable[hlast.addr].pa # proc[last.pid].pagetable[hlast.addr].pa
          /\ pmem[proc[q].pagetable[hlast.addr].pa] = pmem[proc[last.pid].pagetable[hlast.addr].pa]
          /\ pmem[proc[q].pagetable[hlast.addr].pa] # FreedPage

\* The shared set of group g holds SHMEM_MAX frames, none of them f.
FullWithout(cg, g, f) ==
    /\ Deref(cg, g)
    /\ Len(cg[get_cow_group(cg, g)].shmem) = SHMEM_MAX
    /\ \A k \in 1..SHMEM_MAX : cg[get_cow_group(cg, g)].shmem[k] \notin {0, f}

\* C14: add_shmem(g, f) on a group whose shared set holds SHMEM_MAX frames,
\* none equal to f, is ignored: every group record (shared set, member
\* count, id) is as before.
C14_FullSetIgnoresAdd ==
    [][(last'.op = "add_shmem" /\ FullWithout(cow_group, last'.pid, last'.ret))
          => cow_group' = cow_group]_vars

\* The swap extent of descriptor i holds the content its page had when it
\* was evicted.
InSwap(i) ==
    /\ heap_tracker[i].startblock \in 0..(PSASIZE - 4)
    /\ \A q \in 1..4 : disk[heap_tracker[i].startblock + q - 1] = swapped[i][q]

\* C15: between fault handlings every heap descriptor's flag tells where
\* the page is: loaded = true exactly when the page is unmapped with its
\* content in swap at startblock, and a descriptor that was faulted in and
\* has loaded = false is mapped.
C15_LoadedMatchesLocation ==
    \A i \in HeapIdx :
       /\ heap_tracker[i].loaded => (~Resident(i) /\ InSwap(i))
       /\ (~heap_tracker[i].loaded /\ heap_tracker[i].last_load_time # UINT64_MAX)
             => Resident(i)

\* Descriptor i's page is evicted: unmapped, with an extent recorded.
Evicted(i) == heap_tracker[i].loaded /\ ~Resident(i)
\* The blocks of descriptor i's extent.
ExtentOf(i) == heap_tracker[i].startblock..(heap_tracker[i].startblock + 3)
\* The bitmap marks exactly the extents of the evicted pages, which are
\* pairwise disjoint.
BitmapExact ==
    /\ \A b \in Blocks : psa_tracker[b] <=> \E i \in HeapIdx : Evicted(i) /\ b \in ExtentOf(i)
    /\ \A i, j \in HeapIdx :
          (i # j /\ Evicted(i) /\ Evicted(j)) => ExtentOf(i) \cap ExtentOf(j) = {}
\* The blocks whose mark a step changes form runs of 4.
ChangedInUnitsOf4 ==
    LET D == {b \in Blocks : psa_tracker'[b] # psa_tracker[b]}
    IN  \A b \in D : \E st \in Blocks :
           /\ b \in st..(st + 3)
           /\ \A c \in st..(st + 3) : c \in D /\ psa_tracker'[c] = psa_tracker'[b]

\* C16: psa_tracker marks as used exactly the blocks of the extents that
\* hold the pages currently evicted, these extents are pairwise disjoint,
\* and blocks are set and cleared 4 at a time.
C16_BitmapMatchesExtents == [][BitmapExact' /\ ChangedInUnitsOf4]_vars

\* Descriptor i passes the victim scan's filter and its page is mapped.
Eligible(i) == ~heap_tracker[i].loaded /\ Resident(i)

\* C17: whenever page_fault_handler calls evict_page_to_disk, some heap
\* descriptor is eligible as a resident victim, and the descriptor evicted
\* is a resident one.
C17_VictimAlwaysEligible ==
    [][\A a \in UPages : (HeapFault(a) /\ hlast'.evicted) =>
          /\ \E i \in HeapIdx : Eligible(i)
          /\ Resident(hlast'.victim)]_vars

\* C18: after a heap fault is handled the resident-heap-page counter does
\* not exceed MAXRESHEAP and equals the number of heap pages mapped.
C18_CounterMatchesMapped ==
    /\ resident_heap_pages <= MAXRESHEAP
    /\ resident_heap_pages = Cardinality({i \in HeapIdx : Resident(i)})

\* C19: on the program-image path page_fault_handler maps the faulting page
\* and no other, with the flags of the segment that holds it, and loads from
\* the file the content of that page only: it asks for no other page of the
\* segment and changes no other page.
C19_LoadsFaultingPageOnly ==
    [][(hlast'.path = "image" /\ hlast' # hlast) =>
          LET addr == hlast'.addr IN
          /\ ~panicked'
          /\ hlast'.asked \subseteq {addr}
          /\ \A a \in UPages : a # addr =>
                (upagetable'[a] = upagetable[a] /\ umem'[a] = umem[a])
          /\ upagetable'[addr].v
          /\ \E k \in SegsAt(addr) : upagetable'[addr].perm = Segs[k].perm
          /\ \A k \in SegsAt(addr) :
                addr \in loadseg_range(k) => umem'[addr] = FilePage(addr)]_vars

\* C20: when harts run registry read-modify-write sequences on the same
\* group at the same time (incr_cow_group_count, decr_cow_group_count,
\* is_shmem followed by add_shmem), the member count and the shared set
\* they leave are those of the same calls run one after the other in some
\* order: no count update is lost, no entry is lost or stored twice.
C20_CallsAreSerializable ==
    (\A t \in Cpus : cpu[t].pc = "done") => cow_group \in SerialResults

====
